---- MODULE Spec2Model ----
(***************************************************************************)
(* Model of the weather pipeline: scrape_weather.py appends raw rows to    *)
(* data/raw_weather.csv, clean_weather.py turns the raw file into          *)
(* data/clean_weather.csv, store_database.py loads the clean file into     *)
(* the SQLite table "weather" of data/weather.db.                          *)
(*                                                                         *)
(* Conventions.  An optional value is a tuple: <<>> is the missing value   *)
(* (None / NaN / NULL), <<v>> is the present value v.  A text is a tuple   *)
(* of one-character strings; the character "deg" stands for the degree     *)
(* sign.  A real with one decimal is the integer number of its tenths      *)
(* (22.2 is 222).  An instant is a record [d |-> day, t |-> time of day].  *)
(***************************************************************************)
EXTENDS Integers, Sequences, FiniteSets, TLC

\* ------------------------------------------------------------------ bounds
\* Largest number of rows the raw file holds.
MaxRaw == 2
\* Largest number of store runs (it also bounds the store's clock).
MaxRuns == 2
\* rows of one scraped batch
MaxBatch == 2
\* scraper runs on one calendar day
MaxScrapes == 2
\* calendar days
MaxDay == 3
\* how far below 0 and above 100 the humidity texts go
MaxOver == 3
\* largest bound of the wind texts
MaxWind == 15
\* largest temperature of the temperature texts, and its negative the least
MaxTemp == 40

\* ------------------------------------------------------- optional values
None == <<>>

Some(v) == <<v>>

IsNone(o) == o = <<>>

Val(o) == o[1]

\* ------------------------------------------------------------ Python text
Digits == {"0", "1", "2", "3", "4", "5", "6", "7", "8", "9"}

DigitVal(c) ==
    CASE c = "0" -> 0 [] c = "1" -> 1 [] c = "2" -> 2 [] c = "3" -> 3
      [] c = "4" -> 4 [] c = "5" -> 5 [] c = "6" -> 6 [] c = "7" -> 7
      [] c = "8" -> 8 [] c = "9" -> 9

\* s[i..] starts with pat
StartsAt(s, i, pat) ==
    /\ i + Len(pat) - 1 <= Len(s)
    /\ \A k \in 1..Len(pat) : s[i + k - 1] = pat[k]

\* the first place at or after i where pat occurs in s, 0 when there is none
FindFrom(s, i, pat) ==
    LET at == {j \in i..Len(s) : StartsAt(s, j, pat)}
    IN  IF at = {} THEN 0 ELSE CHOOSE j \in at : \A m \in at : j <= m

RECURSIVE ReplaceFrom(_, _, _)
ReplaceFrom(s, i, pat) ==
    LET j == FindFrom(s, i, pat)
    IN  IF j = 0 THEN SubSeq(s, i, Len(s))
        ELSE SubSeq(s, i, j - 1) \o ReplaceFrom(s, j + Len(pat), pat)

\* str.replace(pat, ""): every occurrence of pat, left to right, is removed
Replace(s, pat) == ReplaceFrom(s, 1, pat)

\* the whitespace of str.strip() and int(): blank, tab, newline
Whitespace == {" ", "\t", "\n"}

RECURSIVE LStrip(_)
LStrip(s) == IF s # <<>> /\ Head(s) \in Whitespace THEN LStrip(Tail(s)) ELSE s

RECURSIVE RStrip(_)
RStrip(s) ==
    IF s # <<>> /\ s[Len(s)] \in Whitespace
    THEN RStrip(SubSeq(s, 1, Len(s) - 1)) ELSE s

\* str.strip()
Strip(s) == RStrip(LStrip(s))

RECURSIVE DigitsValue(_, _)
DigitsValue(s, acc) ==
    IF s = <<>> THEN acc ELSE DigitsValue(Tail(s), 10 * acc + DigitVal(Head(s)))

\* int(text): surrounding whitespace, an optional sign, then decimal digits;
\* anything else is a ValueError, rendered as None
PyInt(text) ==
    LET s == Strip(text)
        signed == s # <<>> /\ Head(s) \in {"-", "+"}
        body == IF signed THEN Tail(s) ELSE s
    IN  IF body = <<>> \/ \E k \in 1..Len(body) : body[k] \notin Digits
        THEN None
        ELSE IF signed /\ Head(s) = "-" THEN Some(0 - DigitsValue(body, 0))
        ELSE Some(DigitsValue(body, 0))

\* int(text) succeeds: text is an integer literal
IntLiteral(text) ==
    LET s == Strip(text)
        signed == s # <<>> /\ Head(s) \in {"-", "+"}
        body == IF signed THEN Tail(s) ELSE s
    IN  body # <<>> /\ \A k \in 1..Len(body) : body[k] \in Digits

RECURSIVE LStripZeros(_)
LStripZeros(s) ==
    IF s # <<>> /\ Head(s) = "0" THEN LStripZeros(Tail(s)) ELSE s

\* the number of decimal digits of int(text), 0 for zero
IntDigits(text) ==
    LET s == Strip(text)
        signed == s # <<>> /\ Head(s) \in {"-", "+"}
    IN  Len(LStripZeros(IF signed THEN Tail(s) ELSE s))

\* the largest float, 1.797...e308, has this many digits: x / 2 raises
\* OverflowError for every integer x of more digits, and for none of fewer
FloatMaxDigits == 309

RECURSIVE NatText(_)
NatText(n) ==
    LET d == <<"0", "1", "2", "3", "4", "5", "6", "7", "8", "9">>[(n % 10) + 1]
    IN  IF n < 10 THEN <<d>> ELSE Append(NatText(n \div 10), d)

\* str(n) of an integer n
IntText(n) == IF n < 0 THEN <<"-">> \o NatText(0 - n) ELSE NatText(n)

\* position of the first "-" at or after i, 0 when there is none
FindHyphen(s, i) == FindFrom(s, i, <<"-">>)

\* str.split('-'): the list of parts
RECURSIVE Split(_)
Split(s) ==
    LET h == FindHyphen(s, 1)
    IN  IF h = 0 THEN <<s>>
        ELSE <<SubSeq(s, 1, h - 1)>> \o Split(SubSeq(s, h + 1, Len(s)))

\* int(x / 2) for an integer x: true division, then truncation towards zero
IntHalf(x) == IF x >= 0 THEN x \div 2 ELSE 0 - ((0 - x) \div 2)

\* round(n / d, 0) for d > 0: nearest integer, a tie goes to the even one
RoundDiv(n, d) ==
    LET q == n \div d
        r == n - q * d
    IN  IF 2 * r < d THEN q
        ELSE IF 2 * r > d THEN q + 1
        ELSE IF q % 2 = 0 THEN q ELSE q + 1

\* ----------------------------------------------------------- field parsers
\* a temperature parser that takes no value below zero
clean_temperature_unsigned(temp) ==
    IF IsNone(temp) \/ temp = Some(<<>>) THEN None
    ELSE LET v == PyInt(Strip(Replace(Replace(Val(temp), <<"deg", "F">>),
                                      <<"deg">>)))
         IN  IF ~IsNone(v) /\ Val(v) < 0 THEN None ELSE v

clean_temperature(temp) ==
    IF IsNone(temp) \/ temp = Some(<<>>) THEN None
    ELSE PyInt(Strip(Replace(Replace(Val(temp), <<"deg", "F">>), <<"deg">>)))

\* line 38 divides the sum of the two bounds by 2 as floats: for a bound of
\* more than FloatMaxDigits digits that raises OverflowError, which the
\* except clause (ValueError, AttributeError) does not catch
clean_wind_raises(wind) ==
    /\ ~IsNone(wind) /\ wind # Some(<<>>)
    /\ LET cleaned == Strip(Replace(Val(wind), <<"m", "p", "h">>))
       IN  /\ FindHyphen(cleaned, 1) # 0
           /\ LET parts == Split(cleaned)
              IN  /\ IntLiteral(parts[1]) /\ IntLiteral(parts[2])
                  /\ \/ IntDigits(parts[1]) > FloatMaxDigits
                     \/ IntDigits(parts[2]) > FloatMaxDigits

clean_wind(wind) ==
    IF IsNone(wind) \/ wind = Some(<<>>) THEN None
    ELSE LET cleaned == Strip(Replace(Val(wind), <<"m", "p", "h">>))
         IN  IF FindHyphen(cleaned, 1) # 0
             THEN LET parts == Split(cleaned)
                  IN  IF ~IntLiteral(parts[1]) \/ ~IntLiteral(parts[2])
                      THEN None
                      ELSE IF clean_wind_raises(wind) THEN None
                      ELSE Some(IntHalf(Val(PyInt(parts[1]))
                                        + Val(PyInt(parts[2]))))
             ELSE PyInt(cleaned)

\* a humidity parser without the range check
clean_humidity_norange(hum) ==
    IF IsNone(hum) \/ hum = Some(<<>>) THEN None
    ELSE PyInt(Strip(Replace(Val(hum), <<"%">>)))

\* a humidity parser whose range excludes its two bounds
clean_humidity_exclusive(hum) ==
    IF IsNone(hum) \/ hum = Some(<<>>) THEN None
    ELSE LET value == PyInt(Strip(Replace(Val(hum), <<"%">>)))
         IN  IF IsNone(value) THEN None
             ELSE IF 0 < Val(value) /\ Val(value) < 100 THEN value
             ELSE None

clean_humidity(hum) ==
    IF IsNone(hum) \/ hum = Some(<<>>) THEN None
    ELSE LET value == PyInt(Strip(Replace(Val(hum), <<"%">>)))
         IN  IF IsNone(value) THEN None
             ELSE IF 0 <= Val(value) /\ Val(value) <= 100 THEN value
             ELSE None

\* what the parsers print when they return None: nothing for a missing
\* cell, "Could not parse ..." from the except clause, and for humidity
\* "Humidity out of range" from the range check
temperature_msg(temp) ==
    IF IsNone(temp) \/ temp = Some(<<>>) THEN "none"
    ELSE IF IsNone(clean_temperature(temp)) THEN "unparseable" ELSE "none"

wind_msg(wind) ==
    IF IsNone(wind) \/ wind = Some(<<>>) THEN "none"
    ELSE IF clean_wind_raises(wind) THEN "none"
    ELSE IF IsNone(clean_wind(wind)) THEN "unparseable" ELSE "none"

humidity_msg(hum) ==
    IF IsNone(hum) \/ hum = Some(<<>>) THEN "none"
    ELSE LET value == PyInt(Strip(Replace(Val(hum), <<"%">>)))
         IN  IF IsNone(value) THEN "unparseable"
             ELSE IF 0 <= Val(value) /\ Val(value) <= 100 THEN "none"
             ELSE "out_of_range"

parse_time(time_str) ==
    IF IsNone(time_str) THEN None ELSE Some(Strip(Val(time_str)))

\* ------------------------------------------------------- derived features
\* a Celsius value cut off after the first decimal
Temperature_C_trunc(f) ==
    IF IsNone(f) THEN None ELSE Some(((Val(f) - 32) * 50) \div 9)

\* a Celsius value that forgets the offset of 32
Temperature_C_nooffset(f) ==
    IF IsNone(f) THEN None ELSE Some(RoundDiv(Val(f) * 50, 9))

\* round((x - 32) * 5/9, 1), in tenths of a degree
Temperature_C(f) ==
    IF IsNone(f) THEN None ELSE Some(RoundDiv((Val(f) - 32) * 50, 9))

\* the product x * 1.60934 in hundred-thousandths, as the float holds it:
\* the double 1.60934 is a little below 1.60934, so a product that ends in
\* 5 in the second decimal is held below that value and rounds down, unless
\* it ends in .25 or .75, which a double holds exactly and round() takes to
\* the even neighbour
RoundsDown(n) == n % 10000 = 5000 /\ (n % 100000) \notin {25000, 75000}

\* a km/h value that is 0 when there is no mph value
Wind_kmh_zero(w) ==
    IF IsNone(w) THEN Some(0) ELSE Some(RoundDiv(Val(w) * 160934, 10000))

\* round(x * 1.60934, 1), in tenths of a km/h (for x up to 13343, where
\* the product still is a 32-bit integer)
Wind_kmh(w) ==
    IF IsNone(w) THEN None
    ELSE LET n == Val(w) * 160934
         IN  IF RoundsDown(n) THEN Some(n \div 10000)
             ELSE Some(RoundDiv(n, 10000))

\* pd.to_datetime(Scraped_At).dt.date
Scraped_Date(at) == IF IsNone(at) THEN None ELSE Some(Val(at).d)

\* ------------------------------------------------------------ sample data
\* The raw rows the raw file is built from.  A raw row has the columns the
\* scraper writes: City, Time, Temperature, Weather, Wind, Humidity and
\* Scraped_At, each of them optional (an empty CSV cell reads back as NaN).
DC == "Washington, DC"

T72 == <<"7", "2", "deg", "F">>

T72s == <<"7", "2", " ", "deg", "F">>

Tm60 == <<"-", "6", "0", "deg", "F">>

W8 == <<"8", " ", "m", "p", "h">>

H55 == <<"5", "5", "%">>

H150 == <<"1", "5", "0", "%">>

Time1 == <<"1", " ", "p", "m">>

Time2 == <<"2", " ", "p", "m">>

S1 == [d |-> 1, t |-> 1]

S2 == [d |-> 2, t |-> 1]

\* the row of the end-to-end scenario: 1 pm, 72 F, 8 mph, 55 %, Sunny
Row1 ==
    [City |-> Some(DC), Time |-> Some(Time1), Temperature |-> Some(T72),
     Weather |-> Some("Sunny"), Wind |-> Some(W8), Humidity |-> Some(H55),
     Scraped_At |-> Some(S1)]

RawRows ==
    { Row1,
      \* same city, time and instant, another temperature
      [Row1 EXCEPT !.Temperature = Some(Tm60)],
      \* the time cell is empty
      [Row1 EXCEPT !.Time = None],
      \* the city cell is empty
      [Row1 EXCEPT !.City = None],
      \* no numeric field parses
      [Row1 EXCEPT !.Time = Some(Time2), !.Temperature = None, !.Wind = None,
                   !.Humidity = Some(H150), !.Scraped_At = Some(S2)] }

\* a temperature cell without the unit
T72b == <<"7", "2">>
\* a temperature cell with a decimal point
T725 == <<"7", "2", ".", "5">>
\* a cell that is no number
Dashes == <<"-", "-">>

\* a wind range whose first bound has one digit more than a float can hold
HugeWind ==
    [k \in 1..(FloatMaxDigits + 1) |-> IF k = 1 THEN "1" ELSE "0"]
        \o <<"-", "0", " ", "m", "p", "h">>

\* Raw rows for the cleaner alone: every way a measurement cell parses or
\* fails to.
CleanSamples ==
    { Row1,
      [Row1 EXCEPT !.Temperature = Some(T72s)],
      [Row1 EXCEPT !.Temperature = Some(T72b)],
      [Row1 EXCEPT !.Time = Some(Time2), !.Temperature = Some(T72b),
                   !.Wind = None, !.Humidity = None],
      [Row1 EXCEPT !.Temperature = Some(T725)],
      [Row1 EXCEPT !.Temperature = Some(Dashes)],
      [Row1 EXCEPT !.Temperature = None],
      [Row1 EXCEPT !.Humidity = Some(H150)],
      [Row1 EXCEPT !.Time = Some(Time2), !.Wind = Some(HugeWind)],
      [Row1 EXCEPT !.Time = Some(Time2), !.Temperature = None, !.Wind = None,
                   !.Humidity = Some(H150), !.Scraped_At = Some(S2)] }

\* ------------------------------------------------------------------ files
\* A file is there or not, and pd.read_csv either reads its rows or raises
\* on it.
NoFile == [exists |-> FALSE, readable |-> TRUE, rows |-> <<>>]

File(rows) == [exists |-> TRUE, readable |-> TRUE, rows |-> rows]

\* a file pd.read_csv raises on: one without a byte (EmptyDataError), as an
\* interrupted to_csv leaves it, or one with a line of too many fields
Unreadable == [exists |-> TRUE, readable |-> FALSE, rows |-> <<>>]

\* a Scraped_At text that is no date
NotADate == [d |-> -1, t |-> -1]

\* pd.to_datetime of the Scraped_At column raises on a text that is no date
to_datetime_raises(rows) ==
    \E k \in 1..Len(rows) : rows[k].Scraped_At = Some(NotADate)

\* a text cell written by to_csv and read back by read_csv: the empty text
\* comes back as a missing value
CsvText(o) == IF o = Some(<<>>) THEN None ELSE o

\* the cleaner without step 2: every row is kept
keep_duplicates(rows) == rows

\* ------------------------------------------------------------- the cleaner
\* DataFrame.drop_duplicates(): the first occurrence of every row is kept
RECURSIVE drop_duplicates(_)
drop_duplicates(rows) ==
    IF rows = <<>> THEN <<>>
    ELSE LET n == Len(rows)
             init == drop_duplicates(SubSeq(rows, 1, n - 1))
         IN  IF \E k \in 1..(n - 1) : rows[k] = rows[n]
             THEN init ELSE Append(init, rows[n])

\* steps 3, 4 and 6 of the cleaner on one row: the parsed columns are added,
\* the raw numeric columns are dropped, the derived columns are added
CleanRow(r) ==
    LET f == clean_temperature(r.Temperature)
        w == clean_wind(r.Wind)
    IN  [City |-> r.City, Time |-> r.Time, Weather |-> r.Weather,
         Scraped_At |-> r.Scraped_At,
         Time_Clean |-> parse_time(r.Time),
         Temperature_F |-> f,
         Wind_mph |-> w,
         Humidity_pct |-> clean_humidity(r.Humidity),
         Temperature_C |-> Temperature_C(f),
         Wind_kmh |-> Wind_kmh(w),
         Scraped_Date |-> Scraped_Date(r.Scraped_At)]

\* step 5: dropna(subset = numeric columns, how = 'all')
AllNumericMissing(c) ==
    IsNone(c.Temperature_F) /\ IsNone(c.Wind_mph) /\ IsNone(c.Humidity_pct)

RECURSIVE dropna(_)
dropna(rows) ==
    IF rows = <<>> THEN <<>>
    ELSE IF AllNumericMissing(Head(rows)) THEN dropna(Tail(rows))
    ELSE <<Head(rows)>> \o dropna(Tail(rows))

\* pd.read_csv(RAW_FILE) types every column by its cells: a column whose
\* present cells all read as numbers is numeric, and it is a float column
\* when a cell is missing or has a decimal point. The parsers take str() of
\* the cell, which for a whole number in a float column ends with ".0".
\* Here for the three measurement columns.
IsIntText(t) ==
    /\ t # <<>>
    /\ LET body == IF Head(t) = "-" THEN Tail(t) ELSE t
       IN  body # <<>> /\ \A k \in 1..Len(body) : body[k] \in Digits

IsFloatText(t) ==
    \E k \in 2..(Len(t) - 1) :
        /\ t[k] = "."
        /\ IsIntText(SubSeq(t, 1, k - 1))
        /\ \A j \in (k + 1)..Len(t) : t[j] \in Digits

FloatColumn(rows, col) ==
    /\ \E k \in 1..Len(rows) : ~IsNone(rows[k][col])
    /\ \A k \in 1..Len(rows) :
          ~IsNone(rows[k][col]) =>
              IsIntText(Val(rows[k][col])) \/ IsFloatText(Val(rows[k][col]))
    /\ \E k \in 1..Len(rows) :
          IsNone(rows[k][col]) \/ IsFloatText(Val(rows[k][col]))

ReadCell(rows, col, o) ==
    IF ~IsNone(o) /\ IsIntText(Val(o)) /\ FloatColumn(rows, col)
    THEN Some(Val(o) \o <<".", "0">>)
    ELSE o

read_csv(rows) ==
    [k \in 1..Len(rows) |->
        [rows[k] EXCEPT !.Temperature = ReadCell(rows, "Temperature", @),
                        !.Wind = ReadCell(rows, "Wind", @),
                        !.Humidity = ReadCell(rows, "Humidity", @)]]

\* the cleaned frame of a raw file
CleanFrame(raw) ==
    LET df == drop_duplicates(read_csv(raw))
    IN  dropna([k \in 1..Len(df) |-> CleanRow(df[k])])

\* df.to_csv(CLEAN_FILE) followed by pd.read_csv(CLEAN_FILE) in the store
read_clean(rows) ==
    [k \in 1..Len(rows) |->
        [rows[k] EXCEPT !.Time = CsvText(@), !.Time_Clean = CsvText(@)]]

\* --------------------------------------------------------------- the store
\* INSERT column list of insert_weather_data: the values bound for one row
InsertValues(row) ==
    [city |-> row.City, time |-> row.Time, time_clean |-> row.Time_Clean,
     temperature_f |-> row.Temperature_F, temperature_c |-> row.Temperature_C,
     weather |-> row.Weather, wind_mph |-> row.Wind_mph,
     wind_kmh |-> row.Wind_kmh, humidity_pct |-> row.Humidity_pct,
     scraped_at |-> row.Scraped_At, scraped_date |-> row.Scraped_Date]

\* the stored row for bound values v: id and created_at are set by the store
StoredRow(v, id, ts) ==
    [id |-> id, city |-> v.city, time |-> v.time, time_clean |-> v.time_clean,
     temperature_f |-> v.temperature_f, temperature_c |-> v.temperature_c,
     weather |-> v.weather, wind_mph |-> v.wind_mph, wind_kmh |-> v.wind_kmh,
     humidity_pct |-> v.humidity_pct, scraped_at |-> v.scraped_at,
     scraped_date |-> v.scraped_date, created_at |-> ts]

\* city TEXT NOT NULL
NotNullViolation(v) == IsNone(v.city)

\* UNIQUE(city, time, scraped_at): SQL NULLs are distinct from one another,
\* so a row with a NULL in the key collides with no row
UniqueViolation(rows, v) ==
    /\ ~IsNone(v.city) /\ ~IsNone(v.time) /\ ~IsNone(v.scraped_at)
    /\ \E r \in rows :
          r.city = v.city /\ r.time = v.time /\ r.scraped_at = v.scraped_at

\* the empty table made by CREATE TABLE IF NOT EXISTS weather
EmptyTable == [rows |-> {}, seq |-> 0]

\* INSERT OR REPLACE: the colliding rows are deleted and the new row is stored
InsertOrReplace(tbl, v, ts) ==
    LET id == tbl.seq + 1
        hit == {r \in tbl.rows : UniqueViolation({r}, v)}
    IN  IF NotNullViolation(v)
        THEN [tbl |-> [tbl EXCEPT !.seq = id], rowcount |-> 0, res |-> "notnull"]
        ELSE [tbl |-> [rows |-> (tbl.rows \ hit) \cup {StoredRow(v, id, ts)},
                       seq |-> id],
              rowcount |-> 1, res |-> "inserted"]

\* INSERT without AUTOINCREMENT bookkeeping: the sequence is not advanced
InsertOrIgnoreNoSeq(tbl, v, ts) ==
    LET id == tbl.seq + 1
    IN  IF NotNullViolation(v)
        THEN [tbl |-> tbl, rowcount |-> 0, res |-> "notnull"]
        ELSE IF UniqueViolation(tbl.rows, v)
        THEN [tbl |-> tbl, rowcount |-> 0, res |-> "unique"]
        ELSE [tbl |-> [rows |-> tbl.rows \cup {StoredRow(v, id, ts)},
                       seq |-> tbl.seq],
              rowcount |-> 1, res |-> "inserted"]

\* INSERT OR IGNORE INTO weather of values v at store time ts.  The
\* AUTOINCREMENT sequence advances on every executed statement; a row that
\* violates a constraint is skipped and the row count is 0.
InsertOrIgnore(tbl, v, ts) ==
    LET id == tbl.seq + 1
    IN  IF NotNullViolation(v)
        THEN [tbl |-> [tbl EXCEPT !.seq = id], rowcount |-> 0, res |-> "notnull"]
        ELSE IF UniqueViolation(tbl.rows, v)
        THEN [tbl |-> [tbl EXCEPT !.seq = id], rowcount |-> 0, res |-> "unique"]
        ELSE [tbl |-> [rows |-> tbl.rows \cup {StoredRow(v, id, ts)}, seq |-> id],
              rowcount |-> 1, res |-> "inserted"]

\* the loop body without the handler of line 128: the error leaves the loop
RowOutcomeAbort(tbl, row, fault, ts, ins, dup) ==
    IF fault = "error"
    THEN [tbl |-> tbl, ins |-> ins, dup |-> dup, res |-> "error", cont |-> FALSE]
    ELSE LET r == InsertOrIgnore(tbl, InsertValues(row), ts)
         IN  IF r.rowcount > 0
             THEN [tbl |-> r.tbl, ins |-> ins + 1, dup |-> dup,
                   res |-> r.res, cont |-> TRUE]
             ELSE [tbl |-> r.tbl, ins |-> ins, dup |-> dup + 1,
                   res |-> r.res, cont |-> TRUE]

\* One pass of the loop body of insert_weather_data on `row`.  fault is the
\* storage medium's answer to cursor.execute: "none", or "error" when it
\* raises an sqlite3 error that is not an IntegrityError (disk I/O error,
\* database locked, ...).  cont tells whether the loop goes on (`continue`).
RowOutcome(tbl, row, fault, ts, ins, dup) ==
    IF fault = "error"
    THEN \* except Exception: print(...); continue
         [tbl |-> tbl, ins |-> ins, dup |-> dup, res |-> "error", cont |-> TRUE]
    ELSE LET r == InsertOrIgnore(tbl, InsertValues(row), ts)
         IN  IF r.rowcount > 0
             THEN [tbl |-> r.tbl, ins |-> ins + 1, dup |-> dup,
                   res |-> r.res, cont |-> TRUE]
             ELSE [tbl |-> r.tbl, ins |-> ins, dup |-> dup + 1,
                   res |-> r.res, cont |-> TRUE]

\* create_database that swallows the failure of sqlite3.connect
create_database_swallow(file, openOk) ==
    [raised |-> FALSE,
     file |-> IF file.exists \/ ~openOk THEN file
              ELSE [exists |-> TRUE, rows |-> {}, seq |-> 0]]

\* create_database for the database file `file`; openOk tells whether the
\* medium lets the file be opened or created.  sqlite3.connect raises
\* otherwise, and nothing is created.
create_database(file, openOk) ==
    IF ~openOk THEN [raised |-> TRUE, file |-> file]
    ELSE [raised |-> FALSE,
          file |-> IF file.exists THEN file
                   ELSE [exists |-> TRUE, rows |-> {}, seq |-> 0]]

\* the cleaner without the test of line 146
\* step 3 stops the run with a traceback when clean_wind raises on a row
CleanRaises(rows) ==
    LET df == drop_duplicates(read_csv(rows))
    IN  \/ \E k \in 1..Len(df) : clean_wind_raises(df[k].Wind)
        \/ to_datetime_raises(df)

\* a validation whose temperature limits are themselves findings
validate_inclusive(rows) ==
    LET has(col, Bad(_)) ==
            \E k \in 1..Len(rows) :
                ~IsNone(rows[k][col]) /\ Bad(Val(rows[k][col]))
        TempBad(x) == x <= -50 \/ x >= 150
        WindBad(x) == x > 200
        HumBad(x) == x < 0 \/ x > 100
    IN  (IF has("Temperature_F", TempBad) THEN {"temperature"} ELSE {})
        \cup (IF has("Wind_mph", WindBad) THEN {"wind"} ELSE {})
        \cup (IF has("Humidity_pct", HumBad) THEN {"humidity"} ELSE {})

\* step 7 of the cleaner: the findings of the validation. min() and max()
\* skip the missing values, and a comparison with no value is false.
validate(rows) ==
    LET has(col, Bad(_)) ==
            \E k \in 1..Len(rows) :
                ~IsNone(rows[k][col]) /\ Bad(Val(rows[k][col]))
        TempBad(x) == x < -50 \/ x > 150
        WindBad(x) == x > 200
        HumBad(x) == x < 0 \/ x > 100
    IN  (IF has("Temperature_F", TempBad) THEN {"temperature"} ELSE {})
        \cup (IF has("Wind_mph", WindBad) THEN {"wind"} ELSE {})
        \cup (IF has("Humidity_pct", HumBad) THEN {"humidity"} ELSE {})

\* the end of step 7: what the cleaner prints after the three checks
validation_report(found) == IF found # {} THEN "issues" ELSE "passed"

\* a cleaned record with no finding
Plausible(c) == validate(<<c>>) = {}

\* a cleaner that writes only the records without a finding
clean_main_filtering(raw, clean) ==
    IF ~raw.exists \/ CleanRaises(raw.rows) THEN clean
    ELSE File(SelectSeq(CleanFrame(raw.rows), Plausible))

clean_main_nocheck(raw, clean) == File(CleanFrame(raw.rows))

\* main of clean_weather.py: the clean file after a cleaning run
clean_main(raw, clean) ==
    IF ~raw.exists \/ CleanRaises(raw.rows) THEN clean
    ELSE File(CleanFrame(raw.rows))

\* ------------------------------------------------------------------- state
VARIABLES
    rawFile,            \* data/raw_weather.csv
    cleanFile,          \* data/clean_weather.csv
    dbFile,             \* data/weather.db: the committed table
    conn,               \* the open connection's view of the table
    pc,                 \* "idle", or "insert" inside insert_weather_data
    batch,              \* df of the store run
    idx,                \* position of the loop in df
    records_inserted,
    duplicates_skipped,
    now,                \* the store's clock (CURRENT_TIMESTAMP)
    out,                \* what the last store run printed
    summary,            \* the counters the last store run reported
    cleanOut,           \* what the last cleaning run printed
    trace,              \* the result of each loop pass of the store run
    hist,               \* history: the raw rows behind the files and runs
    today,              \* the calendar day, datetime.now().date()
    issues,             \* the findings of the last validation (step 7)
    report,             \* what the last validation printed at its end
    query,              \* the query tool: its connection and open transaction
    shown,              \* the rows a consumer displayed last
    two,                \* two store runs at once on one database: the run
                        \* that holds SQLite's write lock (0: none), the
                        \* table inside its open transaction, and for each
                        \* run its place in the loop, its counters and the
                        \* identities it counted as inserted; overlap tells
                        \* whether a run started while the other was in
                        \* its loop
    parseIn,            \* a cell handed to the field parsers
    parseOut,           \* what the parser called last returned and printed,
                        \* and the feature step 6 derives from it
    scr                 \* the scraper: what its last run printed, and how
                        \* many runs of this day ran and changed the raw file

vars ==
    <<rawFile, cleanFile, dbFile, conn, pc, batch, idx, records_inserted,
      duplicates_skipped, now, out, summary, cleanOut, trace, hist, today,
      issues, report, query, shown, two, parseIn, parseOut, scr>>

scrapeVars == <<today, scr>>

parseVars == <<parseIn, parseOut>>

\* the query tool is not running
NoQuery == [open |-> FALSE, tx |-> None]

\* a store run that has not started
IdleRun ==
    [pc |-> "idle", batch |-> <<>>, idx |-> 1, records_inserted |-> 0,
     duplicates_skipped |-> 0, counted |-> {}]

\* no store runs at once
NoTwo ==
    [on |-> FALSE, lock |-> 0, work |-> EmptyTable,
     run |-> <<IdleRun, IdleRun>>, overlap |-> FALSE]

NoParse ==
    [fn |-> "none", res |-> None, msg |-> "none", raised |-> FALSE,
     derived |-> None]

NoDb == [exists |-> FALSE, rows |-> {}, seq |-> 0]

Init ==
    /\ rawFile = NoFile
    /\ cleanFile = NoFile
    /\ dbFile = NoDb
    /\ conn = EmptyTable
    /\ pc = "idle"
    /\ batch = <<>>
    /\ idx = 1
    /\ records_inserted = 0
    /\ duplicates_skipped = 0
    /\ now = 0
    /\ out = {}
    /\ summary = None
    /\ cleanOut = "none"
    /\ issues = {}
    /\ report = "none"
    /\ query = NoQuery
    /\ shown = None
    /\ two = NoTwo
    /\ trace = <<>>
    /\ hist = [cleanedFrom |-> <<>>, runFrom |-> <<>>, storedFrom |-> None,
               mediumOk |-> TRUE]
    /\ today = 1
    /\ scr = [out |-> "none", runs |-> 0, changes |-> 0]
    /\ parseIn = None
    /\ parseOut = NoParse

storeVars ==
    <<dbFile, conn, pc, batch, idx, records_inserted, duplicates_skipped,
      now, out, summary, trace>>

\* save_to_csv(data, RAW_DATA_FILE): the rows are appended to the raw file,
\* which is created when it does not exist.  The three scripts are run one
\* at a time: no script starts while a store run is inside its batch.
save_to_csv(data) ==
    /\ pc = "idle"
    /\ Len(rawFile.rows) + Len(data) <= MaxRaw
    /\ rawFile' = File(read_csv(rawFile.rows) \o data)
    /\ UNCHANGED <<cleanFile, cleanOut, issues, report, hist>>
    /\ UNCHANGED storeVars
    /\ UNCHANGED scrapeVars
    /\ UNCHANGED parseVars
    /\ UNCHANGED <<query, shown, two>>

\* clean_weather.py
CleanRun ==
    /\ pc = "idle"
    /\ LET halted == rawFile.exists /\ CleanRaises(rawFile.rows)
           written == clean_main(rawFile, cleanFile)
       IN  /\ cleanFile' = written
           /\ cleanOut' = IF ~rawFile.exists THEN "raw_missing"
                          ELSE IF halted THEN "traceback"
                          ELSE "completed"
           /\ issues' = IF rawFile.exists /\ ~halted
                        THEN validate(written.rows) ELSE issues
           /\ report' = IF rawFile.exists /\ ~halted
                        THEN validation_report(validate(written.rows))
                        ELSE report
           /\ hist' = IF rawFile.exists /\ ~halted
                      THEN [hist EXCEPT !.cleanedFrom = rawFile.rows]
                      ELSE hist
    /\ UNCHANGED rawFile
    /\ UNCHANGED storeVars
    /\ UNCHANGED scrapeVars
    /\ UNCHANGED parseVars
    /\ UNCHANGED <<query, shown, two>>

\* store_database.py main, steps 1 to 3 and the entry of insert_weather_data
StoreBegin(openOk) ==
    /\ pc = "idle"
    /\ now < MaxRuns
    /\ IF ~cleanFile.exists
       THEN /\ out' = {"missing_input"}
            /\ hist' = [hist EXCEPT !.mediumOk = TRUE]
            /\ UNCHANGED <<dbFile, conn, pc, batch, idx, records_inserted,
                           duplicates_skipped, now, summary, trace>>
       ELSE LET c == create_database(dbFile, openOk)
            IN  /\ now' = now + 1
                /\ hist' = [hist EXCEPT !.runFrom = hist.cleanedFrom,
                                        !.mediumOk = openOk]
                /\ trace' = <<>>
                /\ summary' = None
                /\ dbFile' = c.file
                /\ IF c.raised
                   THEN /\ out' = {"traceback"}
                        /\ UNCHANGED <<conn, pc, batch, idx, records_inserted,
                                       duplicates_skipped>>
                   ELSE /\ out' = {"created"}
                        /\ conn' = [rows |-> c.file.rows, seq |-> c.file.seq]
                        /\ batch' = read_clean(cleanFile.rows)
                        /\ idx' = 1
                        /\ records_inserted' = 0
                        /\ duplicates_skipped' = 0
                        /\ pc' = "insert"
    /\ UNCHANGED <<rawFile, cleanFile, cleanOut, issues, report>>
    /\ UNCHANGED scrapeVars
    /\ UNCHANGED parseVars
    /\ UNCHANGED <<query, shown, two>>

\* one pass of the loop of insert_weather_data
InsertRow(fault) ==
    /\ pc = "insert"
    /\ idx <= Len(batch)
    /\ LET o == RowOutcome(conn, batch[idx], fault, now,
                           records_inserted, duplicates_skipped)
       IN  /\ trace' = Append(trace, o.res)
           /\ IF o.cont
              THEN /\ conn' = o.tbl
                   /\ records_inserted' = o.ins
                   /\ duplicates_skipped' = o.dup
                   /\ idx' = idx + 1
                   /\ UNCHANGED <<pc, out>>
              ELSE \* the exception leaves main: the connection is dropped
                   /\ pc' = "idle"
                   /\ out' = out \cup {"traceback"}
                   /\ UNCHANGED <<conn, records_inserted, duplicates_skipped,
                                  idx>>
    /\ UNCHANGED <<rawFile, cleanFile, cleanOut, issues, report, dbFile, batch, now, summary,
                   hist>>
    /\ UNCHANGED scrapeVars
    /\ UNCHANGED parseVars
    /\ UNCHANGED <<query, shown, two>>

\* the end of the loop: conn.commit(), return of the counters, and the rest
\* of main up to conn.close()
StoreFinish ==
    /\ pc = "insert"
    /\ idx > Len(batch)
    /\ dbFile' = [exists |-> TRUE, rows |-> conn.rows, seq |-> conn.seq]
    /\ summary' = Some(<<records_inserted, duplicates_skipped>>)
    /\ out' = out \cup {"summary", "completed"}
    /\ pc' = "idle"
    /\ hist' = IF \A k \in 1..Len(trace) : trace[k] # "error"
               THEN [hist EXCEPT !.storedFrom = Some(hist.runFrom)]
               ELSE hist
    /\ UNCHANGED <<rawFile, cleanFile, cleanOut, issues, report, conn, batch, idx,
                   records_inserted, duplicates_skipped, now, trace>>
    /\ UNCHANGED scrapeVars
    /\ UNCHANGED parseVars
    /\ UNCHANGED <<query, shown, two>>

\* the run is killed inside insert_weather_data (an interrupt, the process
\* or the machine dies): the connection goes away before conn.commit(), so
\* the open transaction is rolled back and the process's variables are gone
StoreCrash ==
    /\ pc = "insert"
    /\ pc' = "idle"
    /\ out' = out \cup {"crashed"}
    /\ conn' = EmptyTable
    /\ batch' = <<>>
    /\ idx' = 1
    /\ records_inserted' = 0
    /\ duplicates_skipped' = 0
    /\ trace' = <<>>
    /\ UNCHANGED <<rawFile, cleanFile, cleanOut, issues, report, dbFile, now, summary, hist>>
    /\ UNCHANGED scrapeVars
    /\ UNCHANGED parseVars
    /\ UNCHANGED <<query, shown, two>>

Next ==
    \/ \E r \in RawRows : save_to_csv(<<r>>)
    \/ CleanRun
    \/ \E openOk \in BOOLEAN : StoreBegin(openOk)
    \/ \E fault \in {"none", "error"} : InsertRow(fault)
    \/ StoreFinish
    \/ StoreCrash

Spec == Init /\ [][Next]_vars

\* ------------------------------------------------------------- the scraper
\* The rows one scrape of the page on the given day can return: the city is
\* fixed, every cell is the stripped text of the page or missing, and
\* Scraped_At is the instant of the scrape.
ScrapedRows(day) ==
    { [City |-> Some(DC), Time |-> Some(tm), Temperature |-> tp,
       Weather |-> Some("Sunny"), Wind |-> Some(W8), Humidity |-> Some(H55),
       Scraped_At |-> Some([d |-> day, t |-> 1])] :
        tm \in {Time1, Time2}, tp \in {Some(T72), None} }

\* The batches of one scrape: at least one row, at most MaxBatch.
Batches(day) ==
    UNION { [1..n -> ScrapedRows(day)] : n \in 1..MaxBatch }

\* A guard that never finds a record of today.
check_for_duplicates_never(file, day) == FALSE

\* The guard of the scraper: TRUE when the raw file exists, has rows, and
\* one of them carries a Scraped_At of the given day. An exception of
\* read_csv or of to_datetime is caught and the answer is FALSE.
check_for_duplicates(file, day) ==
    IF ~file.exists
    THEN FALSE
    ELSE /\ file.readable
         /\ ~to_datetime_raises(file.rows)
         /\ Len(file.rows) > 0
         /\ \E k \in 1..Len(file.rows) :
               /\ ~IsNone(file.rows[k].Scraped_At)
               /\ Val(file.rows[k].Scraped_At).d = day

\* One run of the scraper: scrape, ask the guard, and append the batch to
\* the raw file (or create the file) only when the guard says no.
\* save_to_csv reads the file again, so that a file read_csv raises on ends
\* the run with the error, the file left as it was.
ScrapeMain(data) ==
    /\ pc = "idle"
    /\ scr.runs < MaxScrapes
    /\ IF check_for_duplicates(rawFile, today)
       THEN /\ rawFile' = rawFile
            /\ scr' = [scr EXCEPT !.out = "skipped", !.runs = @ + 1]
       ELSE IF rawFile.exists /\ ~rawFile.readable
       THEN /\ rawFile' = rawFile
            /\ scr' = [scr EXCEPT !.out = "error", !.runs = @ + 1]
       ELSE /\ Len(rawFile.rows) + Len(data) <= MaxRaw
            /\ rawFile' = File(read_csv(rawFile.rows) \o data)
            /\ scr' = [out |-> "saved", runs |-> scr.runs + 1,
                       changes |-> scr.changes + 1]
    /\ UNCHANGED <<cleanFile, cleanOut, issues, report, hist, today>>
    /\ UNCHANGED storeVars
    /\ UNCHANGED parseVars
    /\ UNCHANGED <<query, shown, two>>

\* Midnight: the calendar day advances.
NextDay ==
    /\ pc = "idle"
    /\ today < MaxDay
    /\ today' = today + 1
    /\ scr' = [out |-> "none", runs |-> 0, changes |-> 0]
    /\ UNCHANGED <<rawFile, cleanFile, cleanOut, issues, report, hist>>
    /\ UNCHANGED storeVars
    /\ UNCHANGED parseVars
    /\ UNCHANGED <<query, shown, two>>

\* The raw file the scraper may find at its first run: none, or the rows of
\* an earlier day, or rows of this day.
InitScrape ==
    /\ rawFile \in { NoFile,
                     File(<<[Row1 EXCEPT !.Scraped_At = Some([d |-> 0, t |-> 1])]>>),
                     File(<<Row1>>) }
    /\ cleanFile = NoFile
    /\ dbFile = NoDb
    /\ conn = EmptyTable
    /\ pc = "idle"
    /\ batch = <<>>
    /\ idx = 1
    /\ records_inserted = 0
    /\ duplicates_skipped = 0
    /\ now = 0
    /\ out = {}
    /\ summary = None
    /\ cleanOut = "none"
    /\ issues = {}
    /\ report = "none"
    /\ query = NoQuery
    /\ shown = None
    /\ two = NoTwo
    /\ trace = <<>>
    /\ hist = [cleanedFrom |-> <<>>, runFrom |-> <<>>, storedFrom |-> None,
               mediumOk |-> TRUE]
    /\ today = 1
    /\ scr = [out |-> "none", runs |-> 0, changes |-> 0]
    /\ parseIn = None
    /\ parseOut = NoParse

NextScrape ==
    \/ \E data \in Batches(today) : ScrapeMain(data)
    \/ NextDay

SpecScrape == InitScrape /\ [][NextScrape]_vars

\* ------------------------------------- the scraper on a raw file left to it
\* The raw file a run may find: none, one with the header alone, one that
\* read_csv raises on, one whose Scraped_At is no date, or rows of an
\* earlier day or of this day.
InitGuard ==
    /\ rawFile \in
          { NoFile, File(<<>>), Unreadable,
            File(<<[Row1 EXCEPT !.Scraped_At = Some(NotADate)]>>),
            File(<<[Row1 EXCEPT !.Scraped_At = Some([d |-> 0, t |-> 1])]>>),
            File(<<Row1>>) }
    /\ cleanFile = NoFile
    /\ dbFile = NoDb
    /\ conn = EmptyTable
    /\ pc = "idle"
    /\ batch = <<>>
    /\ idx = 1
    /\ records_inserted = 0
    /\ duplicates_skipped = 0
    /\ now = 0
    /\ out = {}
    /\ summary = None
    /\ cleanOut = "none"
    /\ issues = {}
    /\ report = "none"
    /\ query = NoQuery
    /\ shown = None
    /\ two = NoTwo
    /\ trace = <<>>
    /\ hist = [cleanedFrom |-> <<>>, runFrom |-> <<>>, storedFrom |-> None,
               mediumOk |-> TRUE]
    /\ today = 1
    /\ scr = [out |-> "none", runs |-> 0, changes |-> 0]
    /\ parseIn = None
    /\ parseOut = NoParse

SpecGuard == InitGuard /\ [][NextScrape]_vars

\* ------------------------------------------ the cleaner on a given raw file
\* The raw file the cleaner may find: none, or up to MaxRaw rows.
InitClean ==
    /\ rawFile \in {NoFile} \cup
          { File(rows) : rows \in UNION { [1..n -> CleanSamples] : n \in 1..MaxRaw } }
    /\ cleanFile = NoFile
    /\ dbFile = NoDb
    /\ conn = EmptyTable
    /\ pc = "idle"
    /\ batch = <<>>
    /\ idx = 1
    /\ records_inserted = 0
    /\ duplicates_skipped = 0
    /\ now = 0
    /\ out = {}
    /\ summary = None
    /\ cleanOut = "none"
    /\ issues = {}
    /\ report = "none"
    /\ query = NoQuery
    /\ shown = None
    /\ two = NoTwo
    /\ trace = <<>>
    /\ hist = [cleanedFrom |-> <<>>, runFrom |-> <<>>, storedFrom |-> None,
               mediumOk |-> TRUE]
    /\ today = 1
    /\ scr = [out |-> "none", runs |-> 0, changes |-> 0]
    /\ parseIn = None
    /\ parseOut = NoParse

\* The cleaner, and the store on what it wrote.
NextClean ==
    \/ CleanRun
    \/ StoreBegin(TRUE)
    \/ InsertRow("none")
    \/ StoreFinish

SpecClean == InitClean /\ [][NextClean]_vars

\* ------------------------------------------------------- the parsers alone
\* The cells the parsers are tried on: "<h>%" for the integers h around the
\* valid range, "a-b mph" and "a mph" for small a and b, "<n>degF" for small
\* n with whitespace around it, and cells that are missing, blank or
\* malformed.
HumidityTexts ==
    { IntText(h) \o <<"%">> : h \in (0 - MaxOver)..(100 + MaxOver) }

WindTexts ==
    { IntText(a) \o <<"-">> \o IntText(b) \o <<" ", "m", "p", "h">> :
        a \in 0..MaxWind, b \in 0..MaxWind }
    \cup { IntText(a) \o <<" ", "m", "p", "h">> :
              a \in (0..MaxWind) \cup {2500, 7500, 12500} }

Padded(text) ==
    { l \o text \o <<"deg", "F">> \o t :
        l \in {<<>>, <<" ">>, <<"\t", " ">>}, t \in {<<>>, <<" ", "\n">>} }
    \cup { text \o <<" ", "deg", "F">> }

TemperatureTexts ==
    UNION { Padded(IntText(n)) : n \in (0 - MaxTemp)..MaxTemp }

Malformed ==
    { <<>>, <<" ">>, <<" ", "\t", "\n">>,
      <<"1", "0", "-">>,
      <<"-", "5", " ", "m", "p", "h">>,
      <<"m", "p", "h">>,
      <<"-", "-">>,
      <<"deg", "F">>,
      <<"%">>,
      <<"a", "b", "c">>,
      <<"7", "2", ".", "5", "deg", "F">>,
      <<"5", "-", "1", "0", "-", "1", "5", " ", "m", "p", "h">>,
      <<"7", " ", "2">>,
      <<"1", "O", "%">>,
      <<"-", " ", "5", "deg", "F">>,
      <<"1", "0", " ", "-", " ", "1", "5", " ", "m", "p", "h">>,
      <<"+", "7", "deg", "F">>,
      HugeWind }

ParseInputs ==
    {None} \cup { Some(t) : t \in HumidityTexts \cup WindTexts
                                \cup TemperatureTexts \cup Malformed }

InitParse ==
    /\ parseIn \in ParseInputs
    /\ parseOut = NoParse
    /\ rawFile = NoFile
    /\ cleanFile = NoFile
    /\ dbFile = NoDb
    /\ conn = EmptyTable
    /\ pc = "idle"
    /\ batch = <<>>
    /\ idx = 1
    /\ records_inserted = 0
    /\ duplicates_skipped = 0
    /\ now = 0
    /\ out = {}
    /\ summary = None
    /\ cleanOut = "none"
    /\ issues = {}
    /\ report = "none"
    /\ query = NoQuery
    /\ shown = None
    /\ two = NoTwo
    /\ trace = <<>>
    /\ hist = [cleanedFrom |-> <<>>, runFrom |-> <<>>, storedFrom |-> None,
               mediumOk |-> TRUE]
    /\ today = 1
    /\ scr = [out |-> "none", runs |-> 0, changes |-> 0]

ParseTemperature ==
    /\ parseOut' = [fn |-> "temperature", res |-> clean_temperature(parseIn),
                    msg |-> temperature_msg(parseIn), raised |-> FALSE,
                    derived |-> Temperature_C(clean_temperature(parseIn))]
    /\ UNCHANGED <<parseIn, rawFile, cleanFile, cleanOut, issues, report, hist>>
    /\ UNCHANGED storeVars
    /\ UNCHANGED scrapeVars
    /\ UNCHANGED <<query, shown, two>>

ParseWind ==
    /\ parseOut' = [fn |-> "wind", res |-> clean_wind(parseIn),
                    msg |-> wind_msg(parseIn),
                    raised |-> clean_wind_raises(parseIn),
                    derived |-> Wind_kmh(clean_wind(parseIn))]
    /\ UNCHANGED <<parseIn, rawFile, cleanFile, cleanOut, issues, report, hist>>
    /\ UNCHANGED storeVars
    /\ UNCHANGED scrapeVars
    /\ UNCHANGED <<query, shown, two>>

ParseHumidity ==
    /\ parseOut' = [fn |-> "humidity", res |-> clean_humidity(parseIn),
                    msg |-> humidity_msg(parseIn), raised |-> FALSE,
                    derived |-> None]
    /\ UNCHANGED <<parseIn, rawFile, cleanFile, cleanOut, issues, report, hist>>
    /\ UNCHANGED storeVars
    /\ UNCHANGED scrapeVars
    /\ UNCHANGED <<query, shown, two>>

NextParse ==
    \/ ParseTemperature
    \/ ParseWind
    \/ ParseHumidity

SpecParse == InitParse /\ [][NextParse]_vars

\* ------------------------------------------- the validation on given batches
\* temperature texts around the two limits of the check of line 262
Tm51 == <<"-", "5", "1", "deg", "F">>

Tm50 == <<"-", "5", "0", "deg", "F">>

T150 == <<"1", "5", "0", "deg", "F">>

T151 == <<"1", "5", "1", "deg", "F">>

W250 == <<"2", "5", "0", " ", "m", "p", "h">>

ValidateSamples ==
    { [Row1 EXCEPT !.Temperature = Some(t)] : t \in {Tm51, Tm50, T72, T150, T151} }
    \cup { [Row1 EXCEPT !.Temperature = None],
           [Row1 EXCEPT !.Temperature = None, !.Wind = Some(W250)] }

InitValidate ==
    /\ rawFile \in
          { File(rows) :
              rows \in UNION { [1..n -> ValidateSamples] : n \in 0..MaxRaw } }
    /\ cleanFile = NoFile
    /\ dbFile = NoDb
    /\ conn = EmptyTable
    /\ pc = "idle"
    /\ batch = <<>>
    /\ idx = 1
    /\ records_inserted = 0
    /\ duplicates_skipped = 0
    /\ now = 0
    /\ out = {}
    /\ summary = None
    /\ cleanOut = "none"
    /\ issues = {}
    /\ report = "none"
    /\ query = NoQuery
    /\ shown = None
    /\ two = NoTwo
    /\ trace = <<>>
    /\ hist = [cleanedFrom |-> <<>>, runFrom |-> <<>>, storedFrom |-> None,
               mediumOk |-> TRUE]
    /\ today = 1
    /\ scr = [out |-> "none", runs |-> 0, changes |-> 0]
    /\ parseIn = None
    /\ parseOut = NoParse

NextValidate == CleanRun

SpecValidate == InitValidate /\ [][NextValidate]_vars

\* ----------------------------------------------------------- the consumers
\* The texts an operator may type at "Enter SQL query:", and what SQLite
\* takes each of them for.
SqlTexts ==
    { "", "SELECT * FROM weather", "DELETE FROM weather",
      "DELETE FROM weather WHERE id = 1",
      "UPDATE weather SET temperature_f = 0", "DROP TABLE weather",
      "COMMIT", "weather?" }

SqlKind(text) ==
    CASE text = "" -> "none"
      [] text = "SELECT * FROM weather" -> "select"
      [] text \in {"DELETE FROM weather", "DELETE FROM weather WHERE id = 1",
                   "UPDATE weather SET temperature_f = 0"} -> "dml"
      [] text = "DROP TABLE weather" -> "drop"
      [] text = "COMMIT" -> "commit"
      [] OTHER -> "error"

\* the table after a DELETE or UPDATE statement
SqlChange(text, tbl) ==
    CASE text = "DELETE FROM weather" -> [tbl EXCEPT !.rows = {}]
      [] text = "DELETE FROM weather WHERE id = 1" ->
            [tbl EXCEPT !.rows = {r \in tbl.rows : r.id # 1}]
      [] text = "UPDATE weather SET temperature_f = 0" ->
            [tbl EXCEPT !.rows =
                {[r EXCEPT !.temperature_f = Some(0)] : r \in tbl.rows}]

\* the table as the tool's connection sees it: its open transaction, or the
\* file
View == IF query.tx # None THEN query.tx[1] ELSE [rows |-> dbFile.rows, seq |-> dbFile.seq]

\* main of query_weather.py up to the menu: the tool starts only when the
\* database file exists, connects and prints the record count
QueryMain ==
    /\ ~query.open
    /\ dbFile.exists
    /\ query' = [open |-> TRUE, tx |-> None]
    /\ shown' = Some(dbFile.rows)
    /\ UNCHANGED dbFile

\* menu choices 1 to 7 and 9: fixed SELECT statements
QueryMenu ==
    /\ query.open
    /\ shown' = Some(View.rows)
    /\ UNCHANGED <<query, dbFile>>

\* menu choice 8: pd.read_sql_query(query, conn) runs the text with
\* cursor.execute. A DELETE or UPDATE opens a transaction on the
\* connection, a DROP TABLE outside a transaction takes effect at once, a
\* COMMIT makes an open transaction durable; reading the result of a
\* statement that returns no rows then fails, and a statement that SQLite
\* rejects rolls the connection back; both errors are printed. A dropped
\* table is kept here as a table without rows.
CustomQuery(text) ==
    /\ query.open
    /\ LET kind == SqlKind(text)
       IN  CASE kind = "none" -> UNCHANGED <<query, shown, dbFile>>
             [] kind = "select" ->
                   /\ shown' = Some(View.rows)
                   /\ UNCHANGED <<query, dbFile>>
             [] kind = "dml" ->
                   /\ query' = [query EXCEPT !.tx = Some(SqlChange(text, View))]
                   /\ UNCHANGED <<shown, dbFile>>
             [] kind = "drop" ->
                   IF query.tx = None
                   THEN /\ dbFile' = [dbFile EXCEPT !.rows = {}, !.seq = 0]
                        /\ UNCHANGED <<query, shown>>
                   ELSE /\ query' = [query EXCEPT !.tx = Some(EmptyTable)]
                        /\ UNCHANGED <<shown, dbFile>>
             [] kind = "commit" ->
                   /\ dbFile' = [dbFile EXCEPT !.rows = View.rows,
                                               !.seq = View.seq]
                   /\ query' = [query EXCEPT !.tx = None]
                   /\ UNCHANGED shown
             [] kind = "error" ->
                   /\ query' = [query EXCEPT !.tx = None]
                   /\ UNCHANGED <<shown, dbFile>>

\* menu choice 0: conn.close(), an open transaction is rolled back
QueryExit ==
    /\ query.open
    /\ query' = NoQuery
    /\ shown' = None
    /\ UNCHANGED dbFile

\* load_data of the dashboard: its own connection, one SELECT, close
DashboardLoad ==
    /\ shown' = IF dbFile.exists THEN Some(dbFile.rows) ELSE None
    /\ UNCHANGED <<query, dbFile>>

\* the stored tables the consumers may find
StoredTables ==
    LET t1 == InsertOrIgnore(EmptyTable, InsertValues(CleanRow(Row1)), 1).tbl
        t2 == InsertOrIgnore(t1, InsertValues(CleanRow(
                  [Row1 EXCEPT !.Time = Some(Time2)])), 1).tbl
        t3 == InsertOrIgnore(t2, InsertValues(CleanRow(
                  [Row1 EXCEPT !.Temperature = Some(Tm60),
                               !.Scraped_At = Some(S2)])), 2).tbl
    IN  {EmptyTable, t1, t2, t3}

InitQuery ==
    /\ dbFile \in {NoDb} \cup
          { [exists |-> TRUE, rows |-> t.rows, seq |-> t.seq] :
              t \in StoredTables }
    /\ query = NoQuery
    /\ shown = None
    /\ rawFile = NoFile
    /\ cleanFile = NoFile
    /\ conn = EmptyTable
    /\ pc = "idle"
    /\ batch = <<>>
    /\ idx = 1
    /\ records_inserted = 0
    /\ duplicates_skipped = 0
    /\ now = 0
    /\ out = {}
    /\ summary = None
    /\ cleanOut = "none"
    /\ issues = {}
    /\ report = "none"
    /\ two = NoTwo
    /\ trace = <<>>
    /\ hist = [cleanedFrom |-> <<>>, runFrom |-> <<>>, storedFrom |-> None,
               mediumOk |-> TRUE]
    /\ today = 1
    /\ scr = [out |-> "none", runs |-> 0, changes |-> 0]
    /\ parseIn = None
    /\ parseOut = NoParse

consumerFrame ==
    <<rawFile, cleanFile, conn, pc, batch, idx, records_inserted,
      duplicates_skipped, now, out, summary, cleanOut, issues, report, two,
      trace, hist, today, scr, parseIn, parseOut>>

NextQuery ==
    \/ QueryMain /\ UNCHANGED consumerFrame
    \/ QueryMenu /\ UNCHANGED consumerFrame
    \/ \E text \in SqlTexts : CustomQuery(text) /\ UNCHANGED consumerFrame
    \/ QueryExit /\ UNCHANGED consumerFrame
    \/ DashboardLoad /\ UNCHANGED consumerFrame

SpecQuery == InitQuery /\ [][NextQuery]_vars

\* ------------------------------------------------- two store runs at once
\* Two processes run store_database.py on one database file, each with its
\* own connection. An INSERT, stored or ignored, takes the write lock of the
\* file for its connection until conn.commit(); an INSERT of the other
\* connection meanwhile ends, when sqlite3's timeout is over, with
\* OperationalError "database is locked", which the loop prints and passes
\* over. A run that waits long enough is a run whose step comes later.
Other(i) == 3 - i

\* main up to the entry of the loop: the clean file is read and the table
\* is created when it is not there
TwoBegin(i) ==
    /\ two.on
    /\ two.run[i].pc = "idle"
    /\ cleanFile.exists
    /\ dbFile' = create_database(dbFile, TRUE).file
    /\ two' = [two EXCEPT
                  !.run[i] = [IdleRun EXCEPT
                                !.pc = "insert",
                                !.batch = read_clean(cleanFile.rows)],
                  !.overlap = @ \/ two.run[Other(i)].pc = "insert"]

\* one pass of the loop of insert_weather_data in run i
TwoInsert(i) ==
    /\ two.on
    /\ two.run[i].pc = "insert"
    /\ two.run[i].idx <= Len(two.run[i].batch)
    /\ LET me == two.run[i]
           row == me.batch[me.idx]
       IN  IF two.lock = Other(i)
           THEN \* except Exception: print(...); continue
                two' = [two EXCEPT !.run[i].idx = @ + 1]
           ELSE LET base == IF two.lock = i THEN two.work
                            ELSE [rows |-> dbFile.rows, seq |-> dbFile.seq]
                    o == RowOutcome(base, row, "none", 1,
                                    me.records_inserted, me.duplicates_skipped)
                IN  two' = [two EXCEPT
                              !.lock = i,
                              !.work = o.tbl,
                              !.run[i].idx = @ + 1,
                              !.run[i].records_inserted = o.ins,
                              !.run[i].duplicates_skipped = o.dup,
                              !.run[i].counted =
                                  IF o.ins > me.records_inserted
                                  THEN @ \cup {<<row.City, row.Time_Clean,
                                                 row.Scraped_At>>}
                                  ELSE @]
    /\ UNCHANGED dbFile

\* the end of the loop in run i: conn.commit() and the rest of main
TwoFinish(i) ==
    /\ two.on
    /\ two.run[i].pc = "insert"
    /\ two.run[i].idx > Len(two.run[i].batch)
    /\ IF two.lock = i
       THEN /\ dbFile' = [exists |-> TRUE, rows |-> two.work.rows,
                          seq |-> two.work.seq]
            /\ two' = [two EXCEPT !.lock = 0, !.work = EmptyTable,
                                  !.run[i].pc = "done"]
       ELSE /\ two' = [two EXCEPT !.run[i].pc = "done"]
            /\ UNCHANGED dbFile

\* the raw rows behind the clean file of the two runs
TwoRaw ==
    { Row1, [Row1 EXCEPT !.Time = Some(Time2)], [Row1 EXCEPT !.Time = None] }

InitTwo ==
    /\ cleanFile \in
          { File(CleanFrame(rows)) :
              rows \in UNION { [1..n -> TwoRaw] : n \in 1..MaxBatch } }
    /\ two = [NoTwo EXCEPT !.on = TRUE]
    /\ dbFile = NoDb
    /\ rawFile = NoFile
    /\ conn = EmptyTable
    /\ pc = "idle"
    /\ batch = <<>>
    /\ idx = 1
    /\ records_inserted = 0
    /\ duplicates_skipped = 0
    /\ now = 0
    /\ out = {}
    /\ summary = None
    /\ cleanOut = "none"
    /\ issues = {}
    /\ report = "none"
    /\ query = NoQuery
    /\ shown = None
    /\ trace = <<>>
    /\ hist = [cleanedFrom |-> <<>>, runFrom |-> <<>>, storedFrom |-> None,
               mediumOk |-> TRUE]
    /\ today = 1
    /\ scr = [out |-> "none", runs |-> 0, changes |-> 0]
    /\ parseIn = None
    /\ parseOut = NoParse

twoFrame ==
    <<rawFile, cleanFile, conn, pc, batch, idx, records_inserted,
      duplicates_skipped, now, out, summary, cleanOut, issues, report, query,
      shown, trace, hist, today, scr, parseIn, parseOut>>

NextTwo ==
    \E i \in 1..2 :
        \/ TwoBegin(i) /\ UNCHANGED twoFrame
        \/ TwoInsert(i) /\ UNCHANGED twoFrame
        \/ TwoFinish(i) /\ UNCHANGED twoFrame

SpecTwo == InitTwo /\ [][NextTwo]_vars

\* ------------------------------------------------------------ properties
\* the values of stored row r are the bound values v
SameValues(r, v) == r = StoredRow(v, r.id, r.created_at)

\* the identity of an observation: city, normalized time label, instant
Identity(r) == <<r.city, r.time_clean, r.scraped_at>>

\* the results of a loop pass that stores nothing
Failures == {"unique", "notnull", "error"}

\* a step that is one pass of the loop
LoopPass == pc = "insert" /\ Len(trace') = Len(trace) + 1

LastResult == trace'[Len(trace')]

IsPrefix(a, b) == Len(a) <= Len(b) /\ SubSeq(b, 1, Len(a)) = a

\* C1: no two stored records have the same (city, normalized time label,
\* scrape timestamp), records with an absent time label or timestamp
\* included.
C1_UniqueIdentity ==
    \A r1, r2 \in dbFile.rows : Identity(r1) = Identity(r2) => r1 = r2

\* C2: inserting a record that the table already holds stores no row, adds
\* one to duplicates_skipped and nothing to records_inserted.
C2_SecondInsertIsDuplicate ==
    [][(/\ LoopPass
        /\ LastResult # "error"
        /\ \E r \in conn.rows : SameValues(r, InsertValues(batch[idx])))
       => (/\ conn'.rows = conn.rows
           /\ records_inserted' = records_inserted
           /\ duplicates_skipped' = duplicates_skipped + 1)]_vars

\* C3: a completed store run over the raw data of the last completed run
\* inserts nothing and leaves the stored records as they were; over raw data
\* grown by appended rows, every record it adds comes from an appended row.
C3_RerunAddsNothing ==
    [][(pc = "insert" /\ "summary" \in out' /\ ~IsNone(hist.storedFrom))
       => LET prev == Val(hist.storedFrom)
              cur == hist.runFrom
          IN  /\ cur = prev =>
                    dbFile'.rows = dbFile.rows /\ records_inserted = 0
              /\ IsPrefix(prev, cur) =>
                    \A r \in dbFile'.rows \ dbFile.rows :
                       \E k \in (Len(prev) + 1)..Len(cur) :
                          SameValues(r,
                             InsertValues(read_clean(<<CleanRow(cur[k])>>)[1]))
      ]_vars

\* C4: no step changes or removes a stored record: the committed rows and,
\* inside a batch, the rows the connection sees stay as they are, also when
\* the batch brings a record with the key of a stored row and other values.
C4_StoredRowsNeverChange ==
    [][/\ dbFile.rows \subseteq dbFile'.rows
       /\ (pc = "insert" /\ pc' = "insert") => conn.rows \subseteq conn'.rows
      ]_vars

\* a pass was skipped for the key of a stored row that has another temperature
C4_Witness ==
    /\ pc = "idle" /\ "summary" \in out
    /\ \E k \in 1..Len(trace) :
          /\ trace[k] = "unique"
          /\ \E r \in dbFile.rows :
                /\ UniqueViolation({r}, InsertValues(batch[k]))
                /\ r.temperature_f # batch[k].Temperature_F

\* C5: the two counters a run reports add up to the size of its batch.
C5_CountersCoverBatch ==
    ~IsNone(summary) => Val(summary)[1] + Val(summary)[2] = Len(batch)

\* C6: a failed pass does not end the loop: the loop moves on to the next
\* record, a run that reports its counters has tried every record of the
\* batch, and after a failure a record whose write is not rejected and whose
\* key is not stored is inserted.
C6_FailureDoesNotAbort ==
    /\ []("summary" \in out => Len(trace) = Len(batch))
    /\ [][LoopPass =>
            LET v == InsertValues(batch[idx])
            IN  /\ LastResult \in Failures => pc' = "insert" /\ idx' = idx + 1
                /\ (/\ \E k \in 1..Len(trace) : trace[k] \in Failures
                    /\ LastResult # "error"
                    /\ ~NotNullViolation(v)
                    /\ ~UniqueViolation(conn.rows, v))
                   => \E r \in conn'.rows \ conn.rows : SameValues(r, v)
         ]_vars

\* a run that completed with a failed pass followed by an inserted record
C6_Witness ==
    /\ pc = "idle" /\ "summary" \in out
    /\ \E j, k \in 1..Len(trace) :
          j < k /\ trace[j] \in Failures /\ trace[k] = "inserted"

\* C7: a write rejected for another reason than the uniqueness constraint
\* does not add to duplicates_skipped.
C7_OtherRejectionsCountedApart ==
    [][(LoopPass /\ LastResult \in {"notnull", "error"})
       => duplicates_skipped' = duplicates_skipped]_vars

\* C8: when a run is killed inside a batch, the rows it has inserted so far
\* are in the store afterwards.
C8_CompletedInsertsSurviveFailure ==
    [][(pc = "insert" /\ "crashed" \in out') => conn.rows \subseteq dbFile'.rows
      ]_vars

\* C9: when the store cannot be opened, the run ends there: no record is
\* tried, no counters are reported, the run ends with the error.
C9_OpenFailureIsFatal ==
    ~hist.mediumOk =>
        /\ pc = "idle"
        /\ trace = <<>>
        /\ IsNone(summary)
        /\ out = {"traceback"}

\* a run on a clean file with records found the medium unavailable
C9_Witness ==
    ~hist.mediumOk /\ cleanFile.exists /\ cleanFile.rows # <<>>

\* C10: without the raw file no step writes the clean file, and without the
\* clean file no step creates or changes the store or starts a batch.
C10_MissingInputStops ==
    [][/\ ~rawFile.exists => cleanFile' = cleanFile
       /\ ~cleanFile.exists => dbFile' = dbFile /\ pc' = "idle"]_vars

\* both runs were tried without their input
C10_Witness ==
    /\ cleanOut = "raw_missing" /\ "missing_input" \in out
    /\ ~cleanFile.exists /\ ~dbFile.exists

\* C11: ids are given by the store and grow with the insertions: stored rows
\* have pairwise distinct ids, a row inserted by a loop pass has an id above
\* the id of every row stored before it, and a skipped pass leaves the rows,
\* and so their ids, as they were.
C11_IdsStrictlyIncrease ==
    /\ [](\A r1, r2 \in conn.rows \cup dbFile.rows : r1.id = r2.id => r1 = r2)
    /\ [][LoopPass =>
            /\ \A r \in conn'.rows \ conn.rows :
                  \A q \in conn.rows : r.id > q.id
            /\ LastResult \in Failures => conn'.rows = conn.rows
         ]_vars

\* a second run skipped a stored record and then inserted a new one
C11_Witness ==
    /\ pc = "idle" /\ "summary" \in out
    /\ \E j, k \in 1..Len(trace) :
          j < k /\ trace[j] = "unique" /\ trace[k] = "inserted"
    /\ Cardinality(dbFile.rows) >= 2

\* the raw rows of a frame, as a set
RowSet(rows) == {rows[k] : k \in 1..Len(rows)}

HasRowOf(file, day) ==
    \E k \in 1..Len(file.rows) :
        file.rows[k].Scraped_At # None /\ file.rows[k].Scraped_At[1].d = day

C14_BatchResilience ==
    (cleanFile.exists /\ cleanOut = "completed")
        => RowSet(cleanFile.rows) =
              { CleanRow(r) : r \in { q \in RowSet(hist.cleanedFrom) :
                                        ~AllNumericMissing(CleanRow(q)) } }

\* C15: validation changes nothing: the clean file holds the cleaned frame
\* as it was before validation, whatever the findings, and a record of
\* -60 F is reported, written with that temperature, and stored with it
\* unless its key is already stored.
C15_ValidationAdvisory ==
    /\ [](cleanOut = "completed" =>
            /\ cleanFile.exists
            /\ cleanFile.rows = CleanFrame(hist.cleanedFrom)
            /\ \A r \in RowSet(hist.cleanedFrom) :
                  r.Temperature = Some(Tm60) =>
                      /\ "temperature" \in issues
                      /\ \E k \in 1..Len(cleanFile.rows) :
                            /\ cleanFile.rows[k].Temperature_F = Some(-60)
                            /\ cleanFile.rows[k].Time = r.Time
                            /\ cleanFile.rows[k].Wind_mph = clean_wind(r.Wind))
    /\ [][(LoopPass /\ batch[idx].Temperature_F = Some(-60))
             => /\ LastResult = "inserted" =>
                      \E r \in conn'.rows \ conn.rows :
                          /\ r.temperature_f = Some(-60)
                          /\ r.temperature_c = Some(-511)
                /\ LastResult = "unique" =>
                      \E q \in conn.rows :
                          /\ q.city = batch[idx].City
                          /\ q.time = batch[idx].Time
                          /\ q.scraped_at = batch[idx].Scraped_At
                /\ LastResult # "notnull"]_vars

C15_Witness ==
    /\ cleanOut = "completed" /\ issues = {"temperature"}
    /\ pc = "idle" /\ "summary" \in out
    /\ \E r \in dbFile.rows :
          r.temperature_f = Some(-60) /\ r.temperature_c = Some(-511)

InPercentRange(o) == o = None \/ (Len(o) = 1 /\ o[1] \in 0..100)

\* C16: every record the cleaner writes and every record the store holds
\* has a humidity that is absent or an integer from 0 to 100, and the
\* validation never reports a humidity finding.
C16_HumidityInRange ==
    /\ \A k \in 1..Len(cleanFile.rows) :
          InPercentRange(cleanFile.rows[k].Humidity_pct)
    /\ \A r \in conn.rows \cup dbFile.rows : InPercentRange(r.humidity_pct)
    /\ "humidity" \notin issues

C16_Witness ==
    /\ \E k \in 1..Len(hist.cleanedFrom) :
          /\ hist.cleanedFrom[k].Humidity = Some(H150)
          /\ hist.cleanedFrom[k].Temperature = Some(T72)
    /\ cleanOut = "completed" /\ "summary" \in out /\ pc = "idle"
    /\ \E r \in dbFile.rows : r.humidity_pct = None /\ r.temperature_f = Some(72)

NotNumbers ==
    { <<"a", "b", "c">>, <<"-", "-">>, <<"1", "O", "%">>, <<"m", "p", "h">> }

C18_WindRangeMean ==
    parseOut.fn = "wind" =>
        \A a, b \in 0..MaxWind :
            /\ parseIn = Some(IntText(a) \o <<"-">> \o IntText(b)
                                 \o <<" ", "m", "p", "h">>)
                  => \/ parseOut.res = Some((a + b + 1) \div 2)
                     \/ parseOut.res = Some(RoundDiv(a + b, 2))
            /\ parseIn = Some(IntText(a) \o <<" ", "m", "p", "h">>)
                  => parseOut.res = Some(a)

C20_ParsersTotal ==
    /\ ~parseOut.raised
    /\ \/ parseOut.res = None
       \/ Len(parseOut.res) = 1 /\ parseOut.res[1] \in Int

Dist(a, b) == IF a >= b THEN a - b ELSE b - a

\* C21: the Celsius value of a cleaned temperature is absent exactly when
\* the Fahrenheit value is, and otherwise is the one-decimal value nearest
\* to (F - 32) * 5/9.
C21_CelsiusDerived ==
    parseOut.fn = "temperature" =>
        /\ parseOut.derived = None <=> parseOut.res = None
        /\ parseOut.res # None =>
              /\ Len(parseOut.derived) = 1
              /\ 2 * Dist(9 * parseOut.derived[1],
                          50 * (parseOut.res[1] - 32)) <= 9

C21_Witness ==
    /\ parseOut.fn = "temperature"
    /\ parseOut.res = Some(-40) /\ parseOut.derived = Some(-400)

\* C22: the km/h value of a cleaned wind is absent exactly when the mph
\* value is, and otherwise is a one-decimal value nearest to
\* mph * 1.60934.
C22_KmhDerived ==
    parseOut.fn = "wind" =>
        /\ parseOut.derived = None <=> parseOut.res = None
        /\ parseOut.res # None =>
              /\ Len(parseOut.derived) = 1
              /\ 2 * Dist(10000 * parseOut.derived[1],
                          160934 * parseOut.res[1]) <= 10000

C22_Witness ==
    /\ parseOut.fn = "wind"
    /\ parseOut.res = Some(2500) /\ parseOut.derived = Some(40233)

\* C23: the derived Celsius value, taken back with C * 9/5 + 32 and
\* rounded to an integer, is within one degree of the Fahrenheit value.
C23_RoundTrip ==
    (parseOut.fn = "temperature" /\ parseOut.res # None) =>
        Dist(RoundDiv(9 * parseOut.derived[1] + 1600, 50),
             parseOut.res[1]) <= 1

C23_Witness ==
    /\ parseOut.fn = "temperature"
    /\ parseOut.res = Some(0) /\ parseOut.derived = Some(-178)
    /\ RoundDiv(9 * parseOut.derived[1] + 1600, 50) = 0

\* C24: no step of the query tool or of the dashboard changes the stored
\* records.
C24_ConsumersReadOnly == [][dbFile' = dbFile]_vars

\* the present temperatures of the batch the validation looked at
PresentTemperatures ==
    { cleanFile.rows[k].Temperature_F[1] :
        k \in { j \in 1..Len(cleanFile.rows) :
                  cleanFile.rows[j].Temperature_F # None } }

\* C25: after a completed cleaning run the validation has a temperature
\* finding exactly when some present temperature of the batch is below -50
\* or above 150 (-50 and 150 give none, and so does a batch without a
\* present temperature), and it reports "all checks passed" exactly when it
\* has no finding of any kind.
C25_TemperatureFinding ==
    cleanOut = "completed" =>
        /\ "temperature" \in issues <=>
              \E t \in PresentTemperatures : t < -50 \/ t > 150
        /\ PresentTemperatures \subseteq {-50, 150} => "temperature" \notin issues
        /\ report = "passed" <=> issues = {}
        /\ report \in {"passed", "issues"}

C25_Witness ==
    /\ cleanOut = "completed"
    /\ PresentTemperatures = {-50, 151}
    /\ issues = {"temperature"}
    /\ report = "issues"

\* the guard cannot tell whether today was scraped
GuardCannotTell(file) ==
    \/ ~file.exists
    \/ ~file.readable
    \/ Len(file.rows) = 0
    \/ to_datetime_raises(file.rows)

\* C26: a scraper run that finds no raw file, a raw file without rows, or
\* one whose reading or interpretation raises, appends its batch; and every
\* change of the raw file keeps the rows it held, unaltered and in place.
C26_GuardFailsOpen ==
    /\ [][(scr'.runs = scr.runs + 1 /\ GuardCannotTell(rawFile))
             => /\ scr'.out = "saved"
                /\ rawFile'.exists
                /\ Len(rawFile'.rows) > Len(rawFile.rows)
                /\ IsPrefix(rawFile.rows, rawFile'.rows)]_vars
    /\ [][rawFile' # rawFile => IsPrefix(rawFile.rows, rawFile'.rows)]_vars

\* C27: while two store runs are interleaved pass by pass, no two records
\* of the database file, and none of an open transaction, share one
\* identity, and no identity is counted as inserted by both runs.
C27_InterleavedRuns ==
    (two.on /\ two.overlap) =>
        /\ \A r1, r2 \in dbFile.rows : Identity(r1) = Identity(r2) => r1 = r2
        /\ \A r1, r2 \in two.work.rows : Identity(r1) = Identity(r2) => r1 = r2
        /\ two.run[1].counted \cap two.run[2].counted = {}

====
